---- MODULE Spec2Model ----
(***************************************************************************)
(* Chill-requirement models of chill_models.py.                            *)
(*                                                                         *)
(* Every function of the module is a batch transform of a pandas object    *)
(* with a DatetimeIndex.  A DataFrame is a sequence of rows [t, temp], a    *)
(* Series a sequence of rows [t, v], both in index order.                   *)
(*                                                                         *)
(* Scales: a timestamp t is the number of half hours since                  *)
(* 1 January EpochYear, 00:00 local time; a temperature is in tenths of a   *)
(* degree Celsius, so the literal 7.2 of the source reads 72 here.  The     *)
(* Utah family multiplies counts by 0.5 and 1.0: their chill units are      *)
(* held in halves (0.5 CU reads 1, 1.0 CU reads 2).  landsberg divides by   *)
(* base_temp: its values are kept as [num, den]; den = 0 is the inf / nan   *)
(* that float division by zero produces.                                    *)
(***************************************************************************)
EXTENDS Integers, Sequences, FiniteSets

VARIABLES df, s, arg, op, temps, keys, stdout, ret

vars == <<df, s, arg, op, temps, keys, stdout, ret>>

(***************************************************************************)
(* Bounds of the explored inputs.                                          *)
(***************************************************************************)
MaxLen == 3          \* rows of a DataFrame
MaxT == 5            \* latest half hour of an hourly-scale DataFrame
MaxDay == 2          \* latest day of a daily-scale DataFrame
MaxLenR == 3         \* rows of a chill series handed to reset_chill_hours

Hour == 2
Day == 24 * Hour
EpochYear == 2019

\* Temperatures of the explored frames: one in every band of the Utah rule and one below them, 7.2 itself.
TempVals == {14, 24, 72, 124, 180, 181}

(***************************************************************************)
(* Calendar: DatetimeIndex.year, DatetimeIndex.dayofyear, tm_yday.          *)
(***************************************************************************)
IsLeap(y) == (y % 4 = 0 /\ y % 100 # 0) \/ y % 400 = 0

DaysInYear(y) == IF IsLeap(y) THEN 366 ELSE 365

RECURSIVE YearFrom(_, _)
YearFrom(y, d) == IF d < DaysInYear(y) THEN y ELSE YearFrom(y + 1, d - DaysInYear(y))

RECURSIVE DoyFrom(_, _)
DoyFrom(y, d) == IF d < DaysInYear(y) THEN d + 1 ELSE DoyFrom(y + 1, d - DaysInYear(y))

\* s.index.year and s.index.dayofyear of one timestamp
year(t) == YearFrom(EpochYear, t \div Day)

dayofyear(t) == DoyFrom(EpochYear, t \div Day)

DaysInMonth(y, m) ==
    IF m = 2 THEN (IF IsLeap(y) THEN 29 ELSE 28)
    ELSE IF m \in {4, 6, 9, 11} THEN 30 ELSE 31

RECURSIVE DaysBeforeMonth(_, _)
DaysBeforeMonth(y, m) == IF m = 1 THEN 0 ELSE DaysBeforeMonth(y, m - 1) + DaysInMonth(y, m - 1)

\* reset_date.timetuple().tm_yday of the date y-m-d
tm_yday(date) == DaysBeforeMonth(date.y, date.m) + date.d

\* the timestamp (midnight) of day-of-year doy of year y
RECURSIVE DaysBeforeYear(_)
DaysBeforeYear(y) == IF y = EpochYear THEN 0 ELSE DaysBeforeYear(y - 1) + DaysInYear(y - 1)

Midnight(y, doy) == (DaysBeforeYear(y) + doy - 1) * Day

(***************************************************************************)
(* Input frames: strictly increasing timestamps, no two rows at one instant.*)
(***************************************************************************)
RECURSIVE SetToSeq(_)
SetToSeq(S) ==
    IF S = {} THEN << >>
    ELSE LET m == CHOOSE x \in S : \A y \in S : x <= y
         IN  <<m>> \o SetToSeq(S \ {m})

FrameOf(ts, vs) == [i \in 1..Len(ts) |-> [t |-> ts[i], temp |-> vs[i]]]

\* frame is one of the frames of at most n rows with timestamps in Times, values in Vals
IsFrame(frame, Times, Vals, n) ==
    \E S \in SUBSET Times :
        /\ Cardinality(S) <= n
        /\ LET ix == SetToSeq(S)
           IN  \E f \in [1..Len(ix) -> Vals] : frame = FrameOf(ix, f)

SeriesOf(ts, vs) == [i \in 1..Len(ts) |-> [t |-> ts[i], v |-> vs[i]]]

\* sr is one of the series of at most n rows with timestamps in Times, values in Vals
IsSeries(sr, Times, Vals, n) ==
    \E S \in SUBSET Times :
        /\ Cardinality(S) <= n
        /\ LET ix == SetToSeq(S)
           IN  \E f \in [1..Len(ix) -> Vals] : sr = SeriesOf(ix, f)

\* the two worked series: hourly readings 8, 6, 7.2, 5, 9 and 0, 2.0, 5.0, 17.0, 20.0
Example_7_2 == FrameOf(<<0, 2, 4, 6, 8>>, <<80, 60, 72, 50, 90>>)

Example_Utah == FrameOf(<<0, 2, 4, 6, 8>>, <<0, 20, 50, 170, 200>>)

HourlyExamples == {Example_7_2, Example_Utah}

\* hourly readings on the remaining band edges: 1.4, 9.1, 15.9 and their neighbours
BandEdges ==
    { FrameOf(<<0, 2, 4>>, <<14, 91, 159>>),
      FrameOf(<<1, 3, 5>>, <<15, 92, 160>>),
      FrameOf(<<0, 2, 4>>, <<71, 73, 125>>) }

IsHourlyFrame(frame) ==
    \/ IsFrame(frame, 0..MaxT, TempVals, MaxLen)
    \/ frame \in HourlyExamples \cup BandEdges

\* daily-scale frames: readings at 00:00, 12:00 and 23:30 of the days 0..MaxDay
DailyTimes == {d * Day + o : d \in 0..MaxDay, o \in {0, 12 * Hour, Day - 1}}

DailyTemps == {-30, 50, 120}

\* base_temp of landsberg, in tenths of a degree
BaseTemps == {0, 10, 72}

\* chill series over three years, the middle one a leap year, one row a day at most, on the
\* days around 1 January, the end of February and 31 December
ResetDays ==
    ({EpochYear, EpochYear + 1} \X {1, 59, 60, 61, 365})
        \cup {<<EpochYear + 1, 366>>, <<EpochYear + 2, 1>>, <<EpochYear + 2, 60>>}

ResetTimes == {Midnight(yd[1], yd[2]) : yd \in ResetDays}

ChillVals == {2, 5}

IntAnchor(n) == [kind |-> "int", v |-> n, y |-> 0, m |-> 0, d |-> 0]

DateAnchor(y, m, d) == [kind |-> "date", v |-> 0, y |-> y, m |-> m, d |-> d]

\* reset_date: a day of the year, in and out of 1..366, or a datetime
ResetDates ==
    {IntAnchor(n) : n \in {0, 1, 60, 366, 367}}
        \cup {DateAnchor(2020, 3, 1), DateAnchor(2021, 3, 1)}

(***************************************************************************)
(* pandas primitives used by the models.                                   *)
(***************************************************************************)
\* pd.infer_freq(index): raises ValueError below three timestamps; 'H' when every
\* step is exactly one hour; another rule name or None otherwise.
infer_freq(frame) ==
    IF Len(frame) < 3 THEN "ValueError"
    ELSE IF \A i \in 1..(Len(frame) - 1) : frame[i + 1].t - frame[i].t = Hour THEN "H"
    ELSE IF \A i \in 1..(Len(frame) - 1) : frame[i + 1].t - frame[i].t = frame[2].t - frame[1].t
         THEN "other"
    ELSE "None"

Floor(t, rule) == t - (t % rule)

\* df['temp'].resample(rule).bfill(): the grid of rule-aligned slots from the floor of the
\* first timestamp to the floor of the last, each slot filled from the next row at or after it.
resample_bfill(frame, rule) ==
    IF Len(frame) = 0 THEN << >>
    ELSE LET first == Floor(frame[1].t, rule)
             last  == Floor(frame[Len(frame)].t, rule)
             n     == ((last - first) \div rule) + 1
         IN  [k \in 1..n |->
                LET slot == first + (k - 1) * rule
                    j == CHOOSE j \in 1..Len(frame) :
                            /\ frame[j].t >= slot
                            /\ \A i \in 1..Len(frame) : frame[i].t >= slot => j <= i
                IN  [t |-> slot, temp |-> frame[j].temp]]

\* Series.cumsum() of a 0/1 mask or of numbers
RECURSIVE cumsum(_)
cumsum(x) ==
    IF Len(x) = 0 THEN << >>
    ELSE LET p == cumsum(SubSeq(x, 1, Len(x) - 1))
         IN  Append(p, (IF Len(p) = 0 THEN 0 ELSE p[Len(p)]) + x[Len(x)])

\* a boolean of a mask as cumsum adds it: True is 1, False is 0
AsInt(b) == IF b THEN 1 ELSE 0

\* the Series that carries values v on the index of tt
OnIndex(tt, v) == [i \in 1..Len(tt) |-> [t |-> tt[i].t, v |-> v[i]]]

(***************************************************************************)
(* Results of a call: a Series, None, or a raised exception.               *)
(***************************************************************************)
NoRows == << >>

Unset == [kind |-> "unset", data |-> NoRows]

ReturnSeries(rows) == [kind |-> "Series", data |-> rows]

ReturnNone == [kind |-> "None", data |-> NoRows]

Raise(exc) == [kind |-> exc, data |-> NoRows]

NoTemps == [bound |-> FALSE, rows |-> NoRows]

Bound(rows) == [bound |-> TRUE, rows |-> rows]

Warning == "Warning: reindexing was required. This series index would not match the original DataFrame one"

(***************************************************************************)
(* The block every hourly model starts with:                               *)
(*     if pd.infer_freq(df.index) == 'H': temps = df['temp']                *)
(*     else: print(Warning); temps = df['temp'].resample('1H').bfill()      *)
(* infer_freq raising leaves temps unbound and ends the call.               *)
(***************************************************************************)
Normalize(frame) ==
    LET freq == infer_freq(frame)
    IN  IF freq = "ValueError"
            THEN [raised |-> TRUE, temps |-> NoTemps, printed |-> << >>]
        ELSE IF freq = "H"
            THEN [raised |-> FALSE, temps |-> Bound(frame), printed |-> << >>]
        ELSE [raised |-> FALSE, temps |-> Bound(resample_bfill(frame, Hour)),
              printed |-> <<Warning>>]

(***************************************************************************)
(* Per-hour band tests of the models (temperatures in tenths of a degree).  *)
(***************************************************************************)
\* a reading of exactly 7.2 counted as a chilling hour
at_most_7_2(x) == x <= 72

below_7_2(x) == x < 72

utah_c_low(x) == x > 14 /\ x <= 24
utah_c_full(x) == x > 24 /\ x <= 91
utah_c_high(x) == x > 91 /\ x <= 124
\* the -0.5 band left open above, overlapping the -1.0 band
utah_c_warm_unbounded(x) == x > 159

utah_c_warm(x) == x > 159 /\ x <= 180
utah_c_hot(x) == x > 180

utah_f_low(x) == x > 11 /\ x <= 22
utah_f_full(x) == x > 22 /\ x <= 89
utah_f_high(x) == x > 89 /\ x <= 122
utah_f_warm(x) == x > 156 /\ x <= 183
utah_f_hot(x) == x > 183

low_chill_cold(x) == x >= 18 /\ x <= 80
low_chill_hot(x) == x > 195

nc_cold(x) == x >= 16 /\ x <= 72
nc_hot(x) == x > 233

(***************************************************************************)
(* The return expressions of the hourly models, on the normalized temps.    *)
(***************************************************************************)
chilling_hours_sum(tt) == cumsum([i \in 1..Len(tt) |-> AsInt(below_7_2(tt[i].temp))])

\* in half chill units
utah_sum(tt, fahrenheit_model) ==
    IF fahrenheit_model
    THEN LET low == cumsum([i \in 1..Len(tt) |-> AsInt(utah_f_low(tt[i].temp))])
             full == cumsum([i \in 1..Len(tt) |-> AsInt(utah_f_full(tt[i].temp))])
             high == cumsum([i \in 1..Len(tt) |-> AsInt(utah_f_high(tt[i].temp))])
             warm == cumsum([i \in 1..Len(tt) |-> AsInt(utah_f_warm(tt[i].temp))])
             hot == cumsum([i \in 1..Len(tt) |-> AsInt(utah_f_hot(tt[i].temp))])
         IN  [i \in 1..Len(tt) |-> 1 * low[i] + 2 * full[i] + 1 * high[i] - 1 * warm[i] - 2 * hot[i]]
    ELSE LET low == cumsum([i \in 1..Len(tt) |-> AsInt(utah_c_low(tt[i].temp))])
             full == cumsum([i \in 1..Len(tt) |-> AsInt(utah_c_full(tt[i].temp))])
             high == cumsum([i \in 1..Len(tt) |-> AsInt(utah_c_high(tt[i].temp))])
             warm == cumsum([i \in 1..Len(tt) |-> AsInt(utah_c_warm(tt[i].temp))])
             hot == cumsum([i \in 1..Len(tt) |-> AsInt(utah_c_hot(tt[i].temp))])
         IN  [i \in 1..Len(tt) |-> 1 * low[i] + 2 * full[i] + 1 * high[i] - 1 * warm[i] - 2 * hot[i]]

\* in half chill units
positive_chill_units_sum(tt) ==
    LET low == cumsum([i \in 1..Len(tt) |-> AsInt(utah_c_low(tt[i].temp))])
        full == cumsum([i \in 1..Len(tt) |-> AsInt(utah_c_full(tt[i].temp))])
        high == cumsum([i \in 1..Len(tt) |-> AsInt(utah_c_high(tt[i].temp))])
    IN  [i \in 1..Len(tt) |-> 1 * low[i] + 2 * full[i] + 1 * high[i]]

low_chill_sum(tt) ==
    LET cold == cumsum([i \in 1..Len(tt) |-> AsInt(low_chill_cold(tt[i].temp))])
        hot == cumsum([i \in 1..Len(tt) |-> AsInt(low_chill_hot(tt[i].temp))])
    IN  [i \in 1..Len(tt) |-> cold[i] - hot[i]]

north_carolina_sum(tt) ==
    LET cold == cumsum([i \in 1..Len(tt) |-> AsInt(nc_cold(tt[i].temp))])
        hot == cumsum([i \in 1..Len(tt) |-> AsInt(nc_hot(tt[i].temp))])
    IN  [i \in 1..Len(tt) |-> cold[i] - 2 * hot[i]]

(***************************************************************************)
(* One call of an hourly model: normalize, then return the model's sum on   *)
(* the index of temps.  values is the return expression.                    *)
(***************************************************************************)
HourlyCall(name, a, n, values) ==
    /\ op = "idle"
    /\ op' = name
    /\ arg' = a
    /\ temps' = n.temps
    /\ stdout' = stdout \o n.printed
    /\ ret' = IF n.raised THEN Raise("ValueError")
              ELSE ReturnSeries(OnIndex(n.temps.rows, values))
    /\ UNCHANGED <<df, s, keys>>

NoDate == [kind |-> "none", v |-> 0, y |-> 0, m |-> 0, d |-> 0]

NoArg == [fahrenheit_model |-> FALSE, base_temp |-> 0, reset_date |-> NoDate]

chilling_hours ==
    LET n == Normalize(df)
    IN  HourlyCall("chilling_hours", NoArg, n, chilling_hours_sum(n.temps.rows))

utah ==
    \E fahrenheit_model \in BOOLEAN :
        LET n == Normalize(df)
        IN  HourlyCall("utah", [NoArg EXCEPT !.fahrenheit_model = fahrenheit_model], n,
                       utah_sum(n.temps.rows, fahrenheit_model))

positive_chill_units ==
    LET n == Normalize(df)
    IN  HourlyCall("positive_chill_units", NoArg, n, positive_chill_units_sum(n.temps.rows))

low_chill ==
    LET n == Normalize(df)
    IN  HourlyCall("low_chill", NoArg, n, low_chill_sum(n.temps.rows))

north_carolina ==
    LET n == Normalize(df)
    IN  HourlyCall("north_carolina", NoArg, n, north_carolina_sum(n.temps.rows))

\* the body ends after the normalization: the call returns None
dynamic ==
    LET n == Normalize(df)
    IN  /\ op = "idle"
        /\ op' = "dynamic"
        /\ arg' = NoArg
        /\ temps' = n.temps
        /\ stdout' = stdout \o n.printed
        /\ ret' = IF n.raised THEN Raise("ValueError") ELSE ReturnNone
        /\ UNCHANGED <<df, s, keys>>

(***************************************************************************)
(* landsberg: temps = df['temp'].resample('1D').bfill();                    *)
(*            return temps.cumsum() / base_temp                             *)
(* Float division raises nothing: a zero base_temp gives inf or nan, kept   *)
(* here as a value with den = 0.                                            *)
(***************************************************************************)
truediv(x, base_temp) == [i \in 1..Len(x) |-> [num |-> x[i], den |-> base_temp]]

landsberg_sum(tt, base_temp) == truediv(cumsum([i \in 1..Len(tt) |-> tt[i].temp]), base_temp)

landsberg ==
    \E base_temp \in BaseTemps :
        LET tt == resample_bfill(df, Day)
        IN  /\ op = "idle"
            /\ op' = "landsberg"
            /\ arg' = [NoArg EXCEPT !.base_temp = base_temp]
            /\ temps' = Bound(tt)
            /\ ret' = ReturnSeries(OnIndex(tt, landsberg_sum(tt, base_temp)))
            /\ UNCHANGED <<df, s, keys, stdout>>

(***************************************************************************)
(* reset_chill_hours(s, reset_date):                                        *)
(*     start_doy = reset_date if type(reset_date) is int                    *)
(*                 else reset_date.timetuple().tm_yday                      *)
(*     s.groupby([s.index.year + (s.index.dayofyear - start_doy) // 366])   *)
(*      .apply(lambda x: x - x.iloc[0])                                     *)
(* The applied function keeps the index of its group, so apply hands the    *)
(* pieces back on the index of s, in the order of s.                        *)
(***************************************************************************)
start_doy(reset_date) ==
    IF reset_date.kind = "int" THEN reset_date.v ELSE tm_yday(reset_date)

\* the year shifted with a division by 365
bucket_key_365(t, doy) == year(t) + ((dayofyear(t) - doy) \div 365)

\* s.index.year + (s.index.dayofyear - start_doy) // 366 for one timestamp
bucket_key(t, doy) == year(t) + ((dayofyear(t) - doy) \div 366)

\* each bucket re-based on its last value
rebase_on_last(x) == [i \in 1..Len(x) |-> [t |-> x[i].t, v |-> x[i].v - x[Len(x)].v]]

\* lambda x: x - x.iloc[0]
rebase(x) == [i \in 1..Len(x) |-> [t |-> x[i].t, v |-> x[i].v - x[1].v]]

groupby_apply(sr, k) ==
    LET members(key) == SetToSeq({i \in 1..Len(sr) : k[i] = key})
        group(key) == [j \in 1..Len(members(key)) |-> sr[members(key)[j]]]
        rank(i) == Cardinality({j \in 1..i : k[j] = k[i]})
    IN  [i \in 1..Len(sr) |-> rebase(group(k[i]))[rank(i)]]

reset_chill_hours ==
    \E reset_date \in ResetDates :
        LET doy == start_doy(reset_date)
            k == [i \in 1..Len(s) |-> bucket_key(s[i].t, doy)]
        IN  /\ op = "idle"
            /\ op' = "reset_chill_hours"
            /\ arg' = [NoArg EXCEPT !.reset_date = reset_date]
            /\ keys' = k
            /\ ret' = ReturnSeries(groupby_apply(s, k))
            /\ UNCHANGED <<df, s, temps, stdout>>

InitCommon ==
    /\ arg = NoArg
    /\ keys = << >>
    /\ op = "idle"
    /\ temps = NoTemps
    /\ stdout = << >>
    /\ ret = Unset

Init ==
    /\ IsHourlyFrame(df)
    /\ s = NoRows
    /\ InitCommon

Next ==
    \/ chilling_hours
    \/ utah
    \/ positive_chill_units
    \/ low_chill
    \/ north_carolina
    \/ dynamic

Spec == Init /\ [][Next]_vars

\* landsberg on frames that span several days
InitDaily ==
    /\ IsFrame(df, DailyTimes, DailyTemps, MaxLen)
    /\ s = NoRows
    /\ InitCommon

NextDaily == landsberg

SpecDaily == InitDaily /\ [][NextDaily]_vars

\* reset_chill_hours on chill series that span several years
InitReset ==
    /\ df = NoRows
    /\ IsSeries(s, ResetTimes, ChillVals, MaxLenR)
    /\ InitCommon

NextReset == reset_chill_hours

SpecReset == InitReset /\ [][NextReset]_vars

(***************************************************************************)
(* Vocabulary of the properties.                                           *)
(***************************************************************************)
HourlyModels == {"chilling_hours", "utah", "positive_chill_units", "low_chill",
                 "north_carolina", "dynamic"}

\* the frame has a cadence (three timestamps at least) and every step is one hour
IsRegularHourly(frame) ==
    /\ Len(frame) >= 3
    /\ \A i \in 1..(Len(frame) - 1) : frame[i + 1].t - frame[i].t = Hour

Values(rows) == [i \in 1..Len(rows) |-> rows[i].v]

SameIndex(rows, frame) ==
    /\ Len(rows) = Len(frame)
    /\ \A i \in 1..Len(frame) : rows[i].t = frame[i].t

(***************************************************************************)
(* C1: on a regular hourly frame chilling_hours returns one entry per input *)
(* timestamp, and entry i is the number of readings j <= i strictly below   *)
(* 7.2; a reading of exactly 7.2 adds nothing, so 8, 6, 7.2, 5, 9 gives     *)
(* 0, 1, 1, 2, 2.                                                           *)
(***************************************************************************)
C1_ChillingHoursCountsBelow ==
    (op = "chilling_hours" /\ IsRegularHourly(df)) =>
        /\ ret.kind = "Series"
        /\ SameIndex(ret.data, df)
        /\ \A i \in 1..Len(df) :
              ret.data[i].v = Cardinality({j \in 1..i : df[j].temp < 72})
        /\ (df = Example_7_2 => Values(ret.data) = <<0, 1, 1, 2, 2>>)

C1_Witness ==
    /\ op = "chilling_hours"
    /\ df = Example_7_2
    /\ ret.kind = "Series"
    /\ Values(ret.data) = <<0, 1, 1, 2, 2>>

(***************************************************************************)
(* C2: on a regular hourly frame utah with the metric thresholds returns    *)
(* the prefix sum of a weight that is exactly one of +0.5 in (1.4, 2.4],    *)
(* +1.0 in (2.4, 9.1], +0.5 in (9.1, 12.4], -0.5 in (15.9, 18.0], -1.0      *)
(* above 18.0 and 0 elsewhere; every step of the output is one of -1, -0.5, *)
(* 0, 0.5, 1, and 0, 2.0, 5.0, 17.0, 20.0 gives 0, 0.5, 1.5, 1.0, 0.0.      *)
(* Weights and sums are in half chill units.                                *)
(***************************************************************************)
UtahMetricWeight(x) ==
    IF 14 < x /\ x <= 24 THEN 1
    ELSE IF 24 < x /\ x <= 91 THEN 2
    ELSE IF 91 < x /\ x <= 124 THEN 1
    ELSE IF 159 < x /\ x <= 180 THEN -1
    ELSE IF 180 < x THEN -2
    ELSE 0

C2_UtahMetricPrefixSum ==
    (op = "utah" /\ ~arg.fahrenheit_model /\ IsRegularHourly(df)) =>
        /\ ret.kind = "Series"
        /\ SameIndex(ret.data, df)
        /\ \A i \in 1..Len(df) :
              LET before == IF i = 1 THEN 0 ELSE ret.data[i - 1].v
                  step == ret.data[i].v - before
              IN  /\ step = UtahMetricWeight(df[i].temp)
                  /\ step \in {-2, -1, 0, 1, 2}
        /\ (df = Example_Utah => Values(ret.data) = <<0, 1, 3, 2, 0>>)

C2_Witness ==
    /\ op = "utah"
    /\ ~arg.fahrenheit_model
    /\ df = Example_Utah
    /\ ret.kind = "Series"
    /\ Values(ret.data) = <<0, 1, 3, 2, 0>>

(***************************************************************************)
(* C3: the normalization of every hourly model leaves a regular hourly      *)
(* frame unchanged and reports no resampling; for any other frame it yields *)
(* one entry for every hourly slot of the frame's span, each holding the    *)
(* value of the earliest observation at or after the slot.                  *)
(***************************************************************************)
HourlySlots(frame) ==
    IF Len(frame) = 0 THEN {}
    ELSE {h \in Floor(frame[1].t, Hour)..frame[Len(frame)].t : h % Hour = 0}

NextObservation(frame, slot) ==
    LET later == {i \in 1..Len(frame) : frame[i].t >= slot}
    IN  frame[CHOOSE i \in later : \A k \in later : frame[i].t <= frame[k].t].temp

IsBackfilled(rows, frame) ==
    /\ Len(rows) = Cardinality(HourlySlots(frame))
    /\ \A k \in 1..Len(rows) :
          /\ rows[k].t \in HourlySlots(frame)
          /\ k > 1 => rows[k].t = rows[k - 1].t + Hour
          /\ rows[k].temp = NextObservation(frame, rows[k].t)

C3_NormalizeUnchangedOrBackfilled ==
    op \in HourlyModels =>
        /\ temps.bound
        /\ IF IsRegularHourly(df)
           THEN temps.rows = df /\ stdout = << >>
           ELSE IsBackfilled(temps.rows, df)

(***************************************************************************)
(* C8: normalization never fails: on an empty frame and on a frame of a     *)
(* single row the hourly models return a (possibly empty) series and raise  *)
(* nothing.                                                                 *)
(***************************************************************************)
C8_ShortFramesReturn ==
    (op \in HourlyModels \ {"dynamic"} /\ Len(df) <= 1) =>
        /\ temps.bound
        /\ ret.kind = "Series"

(***************************************************************************)
(* C9: dynamic returns one entry per normalized hourly timestamp, the       *)
(* running count of completed chill portions: it starts from 0, never        *)
(* decreases and grows by exactly one where a portion completes.            *)
(***************************************************************************)
C9_DynamicReturnsPortions ==
    (op = "dynamic" /\ temps.bound) =>
        /\ ret.kind = "Series"
        /\ Len(ret.data) = Len(temps.rows)
        /\ \A i \in 1..Len(ret.data) :
              /\ ret.data[i].t = temps.rows[i].t
              /\ ret.data[i].v - (IF i = 1 THEN 0 ELSE ret.data[i - 1].v) \in {0, 1}

(***************************************************************************)
(* C4: reset_chill_hours returns the timestamps of its input, in the same   *)
(* order and number; each value is the input value minus the value of the   *)
(* first input entry with the same bucket key, the key being                *)
(* calendarYear + floor((dayOfYear - anchorDayOfYear) / 366); the first     *)
(* entry of every bucket is 0; a date anchor acts as its day of the year.   *)
(***************************************************************************)
\* the day of the year of the anchors: 1 March is day 61 of 2020 and day 60 of 2021
AnchorDayOfYear(reset_date) ==
    IF reset_date.kind = "int" THEN reset_date.v
    ELSE IF reset_date.y = 2020 THEN 61 ELSE 60

StatedKey(t, anchor) == year(t) + ((dayofyear(t) - anchor) \div 366)

FirstOfBucket(sr, i, anchor) ==
    CHOOSE j \in 1..i :
        /\ StatedKey(sr[j].t, anchor) = StatedKey(sr[i].t, anchor)
        /\ \A h \in 1..(j - 1) : StatedKey(sr[h].t, anchor) # StatedKey(sr[i].t, anchor)

C4_ResetRebasesEachBucket ==
    op = "reset_chill_hours" =>
        LET anchor == AnchorDayOfYear(arg.reset_date)
        IN  /\ ret.kind = "Series"
            /\ Len(ret.data) = Len(s)
            /\ \A i \in 1..Len(s) :
                  /\ ret.data[i].t = s[i].t
                  /\ ret.data[i].v = s[i].v - s[FirstOfBucket(s, i, anchor)].v
                  /\ FirstOfBucket(s, i, anchor) = i => ret.data[i].v = 0

C4_Witness ==
    /\ op = "reset_chill_hours"
    /\ arg.reset_date.kind = "date"
    /\ ret.kind = "Series"
    /\ Len(s) = 3
    /\ keys[1] # keys[2]
    /\ keys[2] = keys[3]
    /\ s[2].v # s[3].v
    /\ ret.data[2].v = 0
    /\ ret.data[3].v = s[3].v - s[2].v

(***************************************************************************)
(* C5: landsberg with a nonzero base temperature returns one entry per      *)
(* calendar day of the input's span, and the value of day d is the sum over *)
(* the days up to and including d of the day's mean temperature, divided by *)
(* the base temperature.  Stated for frames with a reading on every day.    *)
(***************************************************************************)
DayOf(t) == Floor(t, Day)

SpanDays(frame) ==
    IF Len(frame) = 0 THEN {}
    ELSE {d \in DayOf(frame[1].t)..frame[Len(frame)].t : d % Day = 0}

RowsOfDay(frame, d) == {i \in 1..Len(frame) : DayOf(frame[i].t) = d}

RECURSIVE SumTemps(_, _)
SumTemps(frame, I) ==
    IF I = {} THEN 0
    ELSE LET i == CHOOSE i \in I : TRUE
         IN  frame[i].temp + SumTemps(frame, I \ {i})

\* the sum of the daily means of the days up to d, as a fraction
RECURSIVE MeanSum(_, _)
MeanSum(frame, d) ==
    LET I == RowsOfDay(frame, d)
        mean == [num |-> SumTemps(frame, I), den |-> Cardinality(I)]
    IN  IF d = DayOf(frame[1].t) THEN mean
        ELSE LET before == MeanSum(frame, d - Day)
             IN  [num |-> before.num * mean.den + mean.num * before.den,
                  den |-> before.den * mean.den]

C5_LandsbergSumsDailyMeans ==
    (/\ op = "landsberg"
     /\ arg.base_temp # 0
     /\ \A d \in SpanDays(df) : RowsOfDay(df, d) # {}) =>
        /\ ret.kind = "Series"
        /\ Len(ret.data) = Cardinality(SpanDays(df))
        /\ \A k \in 1..Len(ret.data) :
              /\ ret.data[k].t \in SpanDays(df)
              /\ ret.data[k].v.den = arg.base_temp
              /\ ret.data[k].v.num * MeanSum(df, ret.data[k].t).den
                    = MeanSum(df, ret.data[k].t).num

(***************************************************************************)
(* C6: on a non-empty frame landsberg with a base temperature of zero fails *)
(* with an InvalidParameter error and returns no series.                    *)
(***************************************************************************)
C6_LandsbergRejectsZeroBase ==
    (op = "landsberg" /\ arg.base_temp = 0 /\ Len(df) > 0) =>
        /\ ret.kind = "InvalidParameter"
        /\ ret.data = NoRows

(***************************************************************************)
(* C7: reset_chill_hours with an integer anchor outside 1..366 fails with   *)
(* an InvalidParameter error and returns no re-based series.                *)
(***************************************************************************)
C7_ResetRejectsAnchorOutOfRange ==
    (/\ op = "reset_chill_hours"
     /\ arg.reset_date.kind = "int"
     /\ arg.reset_date.v \notin 1..366) =>
        ret.kind = "InvalidParameter"

(***************************************************************************)
(* C10: for an anchor day of the year in 1..366 and increasing timestamps   *)
(* the term floor((dayOfYear - anchor) / 366) is 0 or -1: the bucket key is *)
(* the calendar year from the anchor day on and the previous year before    *)
(* it; the buckets are contiguous runs; an entry that opens a bucket on the *)
(* day after the previous entry lies on the anchor day of the year, and its *)
(* calendar date is at most one day from the anchor's in a leap year.       *)
(***************************************************************************)
\* the day of the year that the calendar date of t has in a leap year
LeapOrdinal(t) ==
    IF IsLeap(year(t)) \/ dayofyear(t) < 60 THEN dayofyear(t) ELSE dayofyear(t) + 1

CyclicDistance(a, b) ==
    LET d == IF a >= b THEN a - b ELSE b - a
    IN  IF d <= 366 - d THEN d ELSE 366 - d

C10_BucketsStartAtAnchor ==
    (op = "reset_chill_hours" /\ AnchorDayOfYear(arg.reset_date) \in 1..366) =>
        LET anchor == AnchorDayOfYear(arg.reset_date)
        IN  /\ Len(keys) = Len(s)
            /\ \A i \in 1..Len(s) :
                  /\ keys[i] - year(s[i].t) \in {0, -1}
                  /\ keys[i] = IF dayofyear(s[i].t) >= anchor
                               THEN year(s[i].t) ELSE year(s[i].t) - 1
            /\ \A i, j \in 1..Len(s) : i < j => keys[i] <= keys[j]
            /\ \A i \in 2..Len(s) :
                  (keys[i] # keys[i - 1] /\ s[i].t - s[i - 1].t = Day) =>
                      /\ \/ dayofyear(s[i].t) = anchor
                         \/ anchor = 366 /\ dayofyear(s[i].t) = 1
                      /\ CyclicDistance(LeapOrdinal(s[i].t), anchor) <= 1

C10_Witness ==
    /\ op = "reset_chill_hours"
    /\ arg.reset_date = IntAnchor(60)
    /\ Len(s) = 3
    /\ IsLeap(year(s[2].t))
    /\ dayofyear(s[1].t) = 59 /\ dayofyear(s[2].t) = 60 /\ dayofyear(s[3].t) = 61
    /\ keys[1] = year(s[1].t) - 1
    /\ keys[2] = year(s[2].t)
    /\ keys[3] = keys[2]

====
